---------------------------- MODULE Spec2Model ----------------------------
(***************************************************************************)
(* Model of the token authorization path of rust-microservice:             *)
(*   server-macros/src/lib.rs   #[secured] -> auth_middleware              *)
(*   microservice/src/server.rs Server (global OnceLock, init, discovery,  *)
(*                              GlobalServer::validate_jwt)                *)
(*   microservice/src/security.rs  oauth2::validate_jwt and helpers        *)
(*   src/settings.rs            Settings accessors                         *)
(*                                                                         *)
(* Strings the code inspects character by character (raw roles, policy     *)
(* expressions) are sequences of one-character strings.  Values the code   *)
(* only compares for equality (kid, issuer, key material) are plain        *)
(* strings.  The calls into the jsonwebtoken crate (decode_header,         *)
(* DecodingKey::try_from, Validation::new, decode) are modelled by what    *)
(* the crate does at the call sites of security.rs.                        *)
(***************************************************************************)
EXTENDS Integers, Sequences, FiniteSets, TLC

\* Option<T>: None, or Some(v).
None == [some |-> FALSE]

Some(v) == [some |-> TRUE, v |-> v]

\* ------------------------------------------------------------------------
\* Characters and strings
\* ------------------------------------------------------------------------

LowerAlpha == <<"a","b","c","d","e","f","g","h","i","j","k","l","m",
                "n","o","p","q","r","s","t","u","v","w","x","y","z">>

UpperAlpha == <<"A","B","C","D","E","F","G","H","I","J","K","L","M",
                "N","O","P","Q","R","S","T","U","V","W","X","Y","Z">>

Digits == {"0","1","2","3","4","5","6","7","8","9"}

\* Position of c in the sequence s, 0 when absent.
IndexOf(c, s) ==
    IF \E i \in DOMAIN s : s[i] = c
    THEN CHOOSE i \in DOMAIN s : s[i] = c
    ELSE 0

\* char::to_uppercase / char::to_lowercase on the modelled alphabet.
to_uppercase_char(c) ==
    LET i == IndexOf(c, LowerAlpha) IN IF i = 0 THEN c ELSE UpperAlpha[i]

to_lowercase_char(c) ==
    LET i == IndexOf(c, UpperAlpha) IN IF i = 0 THEN c ELSE LowerAlpha[i]

\* str::to_uppercase / str::to_lowercase.
to_uppercase(s) == [i \in DOMAIN s |-> to_uppercase_char(s[i])]

to_lowercase(s) == [i \in DOMAIN s |-> to_lowercase_char(s[i])]

\* str::replace(from, to) for a one-character pattern.
replace(s, from, to) == [i \in DOMAIN s |-> IF s[i] = from THEN to ELSE s[i]]

\* The regex classes \w and \s.
IsWordChar(c) ==
    \/ IndexOf(c, LowerAlpha) # 0
    \/ IndexOf(c, UpperAlpha) # 0
    \/ c \in Digits
    \/ c = "_"

IsSpaceChar(c) == c \in {" ", "\t", "\n"}

\* str::trim.
RECURSIVE trim_start(_)
trim_start(s) ==
    IF s # <<>> /\ IsSpaceChar(Head(s)) THEN trim_start(Tail(s)) ELSE s

RECURSIVE trim_end(_)
trim_end(s) ==
    IF s # <<>> /\ IsSpaceChar(s[Len(s)])
    THEN trim_end(SubSeq(s, 1, Len(s) - 1))
    ELSE s

trim(s) == trim_end(trim_start(s))

\* str::split(',') : the pieces between commas, always at least one piece.
RECURSIVE split_comma(_)
split_comma(s) ==
    LET i == IndexOf(",", s) IN
    IF i = 0
    THEN <<s>>
    ELSE <<SubSeq(s, 1, i - 1)>> \o split_comma(SubSeq(s, i + 1, Len(s)))

ROLE_ == <<"R","O","L","E","_">>

\* ------------------------------------------------------------------------
\* Claims::get_roles : role normalization
\* ------------------------------------------------------------------------

\* The closure of get_roles' map: format!("ROLE_{}", role.to_uppercase()
\* .replace("-", "_").replace(" ", "_")).
normalize_role(role) ==
    ROLE_ \o replace(replace(to_uppercase(role), "-", "_"), " ", "_")


\* ------------------------------------------------------------------------
\* get_authorize_role_method : the policy expression parser
\*
\*   (?i)^\s*(?:(\w+)\s*\(\s*(ROLE_\w+(?:\s*,\s*ROLE_\w+)*)\s*\)|(ROLE_\w+))\s*$
\*
\* \w+, \s* and the starred group are greedy, and each is followed by a
\* character outside its own class, so the match is found without
\* backtracking: the positions below are the only ones the regex can take.
\* ------------------------------------------------------------------------

\* First position at or after i that holds no \s character (Len(s)+1 at the end).
RECURSIVE SkipSpace(_, _)
SkipSpace(s, i) ==
    IF i <= Len(s) /\ IsSpaceChar(s[i]) THEN SkipSpace(s, i + 1) ELSE i

\* First position at or after i that holds no \w character.
RECURSIVE SkipWord(_, _)
SkipWord(s, i) ==
    IF i <= Len(s) /\ IsWordChar(s[i]) THEN SkipWord(s, i + 1) ELSE i

\* ROLE_\w+ at position i under (?i): the position after the match, 0 if none.
MatchRole(s, i) ==
    IF /\ i + Len(ROLE_) <= Len(s)
       /\ to_uppercase(SubSeq(s, i, i + Len(ROLE_) - 1)) = ROLE_
       /\ IsWordChar(s[i + Len(ROLE_)])
    THEN SkipWord(s, i + Len(ROLE_))
    ELSE 0

\* ROLE_\w+(?:\s*,\s*ROLE_\w+)* at position i, as it must be followed by
\* \s*\) : the position after the last role, 0 if there is no such match.
RECURSIVE MatchRoleList(_, _)
MatchRoleList(s, i) ==
    LET AfterSpace(e, j) ==
            IF j <= Len(s) /\ s[j] = ","
            THEN MatchRoleList(s, SkipSpace(s, j + 1))
            ELSE e
        AfterRole(e) == IF e = 0 THEN 0 ELSE AfterSpace(e, SkipSpace(s, e))
    IN  AfterRole(MatchRole(s, i))

\* pattern.captures(&authorize): None, or the three capture groups
\* (a group that did not take part is None).  m0..m1 is group 1, p the "(",
\* r0..r1 group 2, q the ")", m0..b1 group 3.
captures(authorize) ==
    LET s == authorize
        Bare(m0, b1) ==
            IF b1 # 0 /\ SkipSpace(s, b1) = Len(s) + 1
            THEN Some([g1 |-> None, g2 |-> None, g3 |-> Some(SubSeq(s, m0, b1 - 1))])
            ELSE None
        Close(m0, m1, r0, r1, q) ==
            IF q <= Len(s) /\ s[q] = ")" /\ SkipSpace(s, q + 1) = Len(s) + 1
            THEN Some([g1 |-> Some(SubSeq(s, m0, m1 - 1)),
                       g2 |-> Some(SubSeq(s, r0, r1 - 1)),
                       g3 |-> None])
            ELSE Bare(m0, MatchRole(s, m0))
        Roles(m0, m1, r0, r1) ==
            IF r1 # 0
            THEN Close(m0, m1, r0, r1, SkipSpace(s, r1))
            ELSE Bare(m0, MatchRole(s, m0))
        Open(m0, m1, p) ==
            IF m1 > m0 /\ p <= Len(s) /\ s[p] = "("
            THEN Roles(m0, m1, SkipSpace(s, p + 1), MatchRoleList(s, SkipSpace(s, p + 1)))
            ELSE Bare(m0, MatchRole(s, m0))
        Method(m0, m1) == Open(m0, m1, SkipSpace(s, m1))
        Start(m0) == Method(m0, SkipWord(s, m0))
    IN  Start(SkipSpace(s, 1))

\* Result<T, OAuth2Error>: Ok(v), or Err(kind, detail) with the variant of
\* OAuth2Error and its message.  A message of the role checks also holds
\* the required roles and the current roles it is formatted with.
Ok(v) == [kind |-> "Ok", detail |-> "", required |-> <<>>, current |-> {}, v |-> v]

Err(k, d) == [kind |-> k, detail |-> d, required |-> <<>>, current |-> {}]

\* A get_authorize_role_method that keeps the pieces of the split as they
\* are (no trim, no to_uppercase).
get_authorize_role_method_raw(authorize) ==
    LET Checked(method, roles) ==
            IF method = <<>> /\ roles = <<>>
            THEN Err("RoleAuthorizationParse", "Authorization method and role not found.")
            ELSE IF method # <<>> /\ roles = <<>>
            THEN Err("RoleAuthorizationParse", "Authorization method without roles.")
            ELSE Ok([method |-> method, roles |-> roles])
        Groups(g1, roles_raw) ==
            IF ~roles_raw.some
            THEN Err("RoleAuthorizationParse", "Roles not found.")
            ELSE Checked(IF g1.some THEN to_lowercase(g1.v) ELSE <<>>,
                         split_comma(roles_raw.v))
        Captured(caps) ==
            IF ~caps.some
            THEN Err("RoleAuthorizationParse", "Invalid role authorization format.")
            ELSE Groups(caps.v.g1, IF caps.v.g2.some THEN caps.v.g2 ELSE caps.v.g3)
    IN  Captured(captures(authorize))

\* get_authorize_role_method(authorize) -> Result<(method, roles)>
get_authorize_role_method(authorize) ==
    LET Checked(method, roles) ==
            IF method = <<>> /\ roles = <<>>
            THEN Err("RoleAuthorizationParse", "Authorization method and role not found.")
            ELSE IF method # <<>> /\ roles = <<>>
            THEN Err("RoleAuthorizationParse", "Authorization method without roles.")
            ELSE Ok([method |-> method, roles |-> roles])
        Split(method, pieces) ==
            Checked(method, [i \in DOMAIN pieces |-> to_uppercase(trim(pieces[i]))])
        Groups(g1, roles_raw) ==
            IF ~roles_raw.some
            THEN Err("RoleAuthorizationParse", "Roles not found.")
            ELSE Split(IF g1.some THEN to_lowercase(g1.v) ELSE <<>>,
                       split_comma(roles_raw.v))
        Captured(caps) ==
            IF ~caps.some
            THEN Err("RoleAuthorizationParse", "Invalid role authorization format.")
            ELSE Groups(caps.v.g1, IF caps.v.g2.some THEN caps.v.g2 ELSE caps.v.g3)
    IN  Captured(captures(authorize))

\* ------------------------------------------------------------------------
\* Settings (src/settings.rs)
\* ------------------------------------------------------------------------

\* Settings::get_oauth2_config : self.security.as_ref()?.oauth2.clone()
get_oauth2_config(settings) ==
    IF settings.security.some THEN settings.security.v.oauth2 ELSE None

\* A find that hands out the first key of the set when none has the key id.
find_or_first(jwks, kid) ==
    IF \E i \in DOMAIN jwks : jwks[i].kid = Some(kid)
    THEN Some(jwks[CHOOSE i \in DOMAIN jwks :
                     /\ jwks[i].kid = Some(kid)
                     /\ \A j \in 1..(i - 1) : jwks[j].kid # Some(kid)])
    ELSE IF jwks # <<>> THEN Some(jwks[1]) ELSE None

\* JwkSet::find : the first key whose key id is kid.
find(jwks, kid) ==
    IF \E i \in DOMAIN jwks : jwks[i].kid = Some(kid)
    THEN Some(jwks[CHOOSE i \in DOMAIN jwks :
                     /\ jwks[i].kid = Some(kid)
                     /\ \A j \in 1..(i - 1) : jwks[j].kid # Some(kid)])
    ELSE None

\* A key lookup that falls back on a built-in key when the settings hold no
\* OAuth2 section.
get_auth2_public_key_builtin_key(settings, kid) ==
    IF ~settings.security.some
    THEN Some([kid |-> Some(kid), family |-> "Rsa", material |-> "m1", wellformed |-> TRUE])
    ELSE IF ~settings.security.v.oauth2.some
    THEN Some([kid |-> Some(kid), family |-> "Rsa", material |-> "m1", wellformed |-> TRUE])
    ELSE IF ~settings.security.v.oauth2.v.jwks.some THEN None
    ELSE find(settings.security.v.oauth2.v.jwks.v, kid)

\* Settings::get_auth2_public_key :
\* self.security.as_ref()?.oauth2.as_ref()?.jwks.as_ref()?.find(kid).cloned()
get_auth2_public_key(settings, kid) ==
    IF ~settings.security.some THEN None
    ELSE IF ~settings.security.v.oauth2.some THEN None
    ELSE IF ~settings.security.v.oauth2.v.jwks.some THEN None
    ELSE find(settings.security.v.oauth2.v.jwks.v, kid)

\* ------------------------------------------------------------------------
\* The jsonwebtoken calls of security.rs
\*
\* A token is  [wellformed, kid, alg, sig, payload_ok, claims]:
\*   wellformed  decode_header can split the token and read its header
\*   kid, alg    the header's fields
\*   sig         the key material under which the signature verifies with
\*               the header's algorithm
\*   payload_ok  the payload deserializes into Claims
\*   claims      [exp, iss, aud, resource_access]; nbf, iat, sub and scope
\*               are read by nothing (validate_nbf is off, no subject is set)
\* ------------------------------------------------------------------------

\* Algorithm::family
Family(alg) == IF alg \in {"HS256", "HS384", "HS512"} THEN "Hmac" ELSE "Rsa"

\* decode_header(token) : Err on a token that is not three segments with a
\* base64 JSON header, else the header.
decode_header(token) ==
    IF token.wellformed
    THEN Ok([kid |-> token.kid, alg |-> token.alg])
    ELSE Err("InvalidToken", "InvalidToken")

\* DecodingKey::try_from(&Jwk) : the key with its algorithm family, Err on
\* key parameters that cannot be decoded.
DecodingKey_try_from(jwk) ==
    IF jwk.wellformed
    THEN Ok([family |-> jwk.family, material |-> jwk.material])
    ELSE Err("InvalidKeyFormat", "InvalidKeyFormat")

\* Default leeway of Validation::new, in seconds.
Leeway == 60

\* The block without `validation.validate_exp = true` and with the expiry
\* validation switched off.
Validation_no_expiry(algorithm, issuer) ==
    [ algorithms           |-> {algorithm},
      required_spec_claims |-> {"exp"},
      leeway               |-> Leeway,
      validate_exp         |-> FALSE,
      validate_nbf         |-> FALSE,
      validate_aud         |-> TRUE,
      aud                  |-> None,
      iss                  |-> Some({issuer}) ]

\* The block with no claim required (set_required_spec_claims(&[])).
Validation_nothing_required(algorithm, issuer) ==
    [ algorithms           |-> {algorithm},
      required_spec_claims |-> {},
      leeway               |-> Leeway,
      validate_exp         |-> TRUE,
      validate_nbf         |-> FALSE,
      validate_aud         |-> TRUE,
      aud                  |-> None,
      iss                  |-> Some({issuer}) ]

\* The block building `validation`: Validation::new(algorithm) with the
\* crate's defaults, then set_issuer and validate_exp = true.
Validation(algorithm, issuer) ==
    [ algorithms           |-> {algorithm},
      required_spec_claims |-> {"exp"},
      leeway               |-> Leeway,
      validate_exp         |-> TRUE,
      validate_nbf         |-> FALSE,
      validate_aud         |-> TRUE,
      aud                  |-> None,
      iss                  |-> Some({issuer}) ]

\* A decode that verifies the signature with whatever algorithm the header
\* names, without comparing the key's family with it.
decode_any_family(token, key, validation, now) ==
    IF token.alg \notin validation.algorithms
    THEN Err("JWTDecode", "InvalidAlgorithm")
    ELSE IF token.sig # key.material
    THEN Err("JWTDecode", "InvalidSignature")
    ELSE IF ~token.payload_ok
    THEN Err("JWTDecode", "Json")
    ELSE IF "exp" \in validation.required_spec_claims /\ ~token.claims.exp.some
    THEN Err("JWTDecode", "MissingRequiredClaim")
    ELSE IF /\ validation.validate_exp
            /\ token.claims.exp.some
            /\ token.claims.exp.v < now - validation.leeway
    THEN Err("JWTDecode", "ExpiredSignature")
    ELSE IF /\ token.claims.iss.some
            /\ validation.iss.some
            /\ token.claims.iss.v \notin validation.iss.v
    THEN Err("JWTDecode", "InvalidIssuer")
    ELSE IF /\ validation.validate_aud
            /\ token.claims.aud.some
            /\ (validation.aud.some => token.claims.aud.v \notin validation.aud.v)
    THEN Err("JWTDecode", "InvalidAudience")
    ELSE Ok(token.claims)

\* decode::<Claims>(token, key, validation) at time now: the signature is
\* verified first (key family against the allowed algorithms, header
\* algorithm among them, then the signature itself), then the payload is
\* deserialized and the registered claims are validated.
decode(token, key, validation, now) ==
    IF \E a \in validation.algorithms : Family(a) # key.family
    THEN Err("JWTDecode", "InvalidAlgorithm")
    ELSE IF token.alg \notin validation.algorithms
    THEN Err("JWTDecode", "InvalidAlgorithm")
    ELSE IF token.sig # key.material
    THEN Err("JWTDecode", "InvalidSignature")
    ELSE IF ~token.payload_ok
    THEN Err("JWTDecode", "Json")
    ELSE IF "exp" \in validation.required_spec_claims /\ ~token.claims.exp.some
    THEN Err("JWTDecode", "MissingRequiredClaim")
    ELSE IF /\ validation.validate_exp
            /\ token.claims.exp.some
            /\ token.claims.exp.v < now - validation.leeway
    THEN Err("JWTDecode", "ExpiredSignature")
    ELSE IF /\ token.claims.iss.some
            /\ validation.iss.some
            /\ token.claims.iss.v \notin validation.iss.v
    THEN Err("JWTDecode", "InvalidIssuer")
    ELSE IF /\ validation.validate_aud
            /\ token.claims.aud.some
            /\ (validation.aud.some => token.claims.aud.v \notin validation.aud.v)
    THEN Err("JWTDecode", "InvalidAudience")
    ELSE Ok(token.claims)

\* ------------------------------------------------------------------------
\* security.rs : oauth2
\*
\* The validation functions return [kind, detail, calls]: the Result, and
\* the steps that ran, in order.
\* ------------------------------------------------------------------------

Done(r, calls) ==
    [ kind |-> r.kind, detail |-> r.detail, required |-> r.required,
      current |-> r.current, calls |-> calls ]

\* A get_roles that answers the empty set when the token has no
\* resource_access claim (unwrap_or_default instead of `?`).
get_roles_or_empty(claims) ==
    IF ~claims.resource_access.some
    THEN Some({})
    ELSE LET ra == claims.resource_access.v IN
         Some(UNION { { normalize_role(ra[n][i]) : i \in DOMAIN ra[n] } :
                      n \in DOMAIN ra })

\* Claims::get_roles
get_roles(claims) ==
    IF ~claims.resource_access.some
    THEN None
    ELSE LET ra == claims.resource_access.v IN
         Some(UNION { { normalize_role(ra[n][i]) : i \in DOMAIN ra[n] } :
                      n \in DOMAIN ra })

\* A has_any_role that looks at the first required role only.
has_any_role_first_only(claims, roles) ==
    LET Check(token_roles) ==
            IF ~token_roles.some
            THEN Err("InvalidRoles", "User doesn't have any roles.")
            ELSE IF roles # <<>> /\ roles[1] \in token_roles.v
            THEN Ok(<<>>)
            ELSE [ kind     |-> "InvalidRoles",
                   detail   |-> "No required role was found for the current user.",
                   required |-> roles,
                   current  |-> token_roles.v ]
    IN  Check(get_roles(claims))

\* has_any_role(token, roles)
has_any_role(claims, roles) ==
    LET Check(token_roles) ==
            IF ~token_roles.some
            THEN Err("InvalidRoles", "User doesn't have any roles.")
            ELSE IF \E i \in DOMAIN roles : roles[i] \in token_roles.v
            THEN Ok(<<>>)
            ELSE [ kind     |-> "InvalidRoles",
                   detail   |-> "No required role was found for the current user.",
                   required |-> roles,
                   current  |-> token_roles.v ]
    IN  Check(get_roles(claims))

\* A has_all_role that goes through the whole list and names the last
\* role not held.
has_all_role_names_last(claims, roles) ==
    LET Check(token_roles) ==
            IF ~token_roles.some
            THEN Err("InvalidRoles", "User doesn't have any roles.")
            ELSE IF \E i \in DOMAIN roles : roles[i] \notin token_roles.v
            THEN [ kind     |-> "InvalidRoles",
                   detail   |-> "No required role was found for the current user.",
                   required |-> <<roles[CHOOSE i \in DOMAIN roles :
                                          /\ roles[i] \notin token_roles.v
                                          /\ \A j \in (i + 1)..Len(roles) :
                                                roles[j] \in token_roles.v]>>,
                   current  |-> token_roles.v ]
            ELSE Ok(<<>>)
    IN  Check(get_roles(claims))

\* has_all_role(token, roles) : the error names the first role not held.
has_all_role(claims, roles) ==
    LET Check(token_roles) ==
            IF ~token_roles.some
            THEN Err("InvalidRoles", "User doesn't have any roles.")
            ELSE IF \E i \in DOMAIN roles : roles[i] \notin token_roles.v
            THEN [ kind     |-> "InvalidRoles",
                   detail   |-> "No required role was found for the current user.",
                   required |-> <<roles[CHOOSE i \in DOMAIN roles :
                                          /\ roles[i] \notin token_roles.v
                                          /\ \A j \in 1..(i - 1) :
                                                roles[j] \in token_roles.v]>>,
                   current  |-> token_roles.v ]
            ELSE Ok(<<>>)
    IN  Check(get_roles(claims))

hasanyrole == <<"h","a","s","a","n","y","r","o","l","e">>

hasallroles == <<"h","a","s","a","l","l","r","o","l","e","s">>

\* A validate_jwt_roles that takes an expression it cannot parse for "no
\* rule" and lets the caller through.
validate_jwt_roles_open_without_rule(claims, authorize) ==
    LET Match(method, roles) ==
            IF method = hasanyrole
            THEN Done(has_any_role(claims, roles),
                      <<"get_authorize_role_method", "has_any_role">>)
            ELSE IF method = hasallroles
            THEN Done(has_all_role(claims, roles),
                      <<"get_authorize_role_method", "has_all_role">>)
            ELSE IF method # <<>>
            THEN Done(Err("InvalidRoles", "Invalid role authorization method"),
                      <<"get_authorize_role_method">>)
            ELSE Done(has_any_role(claims, roles),
                      <<"get_authorize_role_method", "has_any_role">>)
        Parsed(parsed) ==
            IF parsed.kind # "Ok"
            THEN Done(Ok(<<>>), <<"get_authorize_role_method">>)
            ELSE Match(parsed.v.method, parsed.v.roles)
    IN  Parsed(get_authorize_role_method(authorize))

\* validate_jwt_roles(token, authorize)
validate_jwt_roles(claims, authorize) ==
    LET Match(method, roles) ==
            IF method = hasanyrole
            THEN Done(has_any_role(claims, roles),
                      <<"get_authorize_role_method", "has_any_role">>)
            ELSE IF method = hasallroles
            THEN Done(has_all_role(claims, roles),
                      <<"get_authorize_role_method", "has_all_role">>)
            ELSE IF method # <<>>
            THEN Done(Err("InvalidRoles", "Invalid role authorization method"),
                      <<"get_authorize_role_method">>)
            ELSE Done(has_any_role(claims, roles),
                      <<"get_authorize_role_method", "has_any_role">>)
        Parsed(parsed) ==
            IF parsed.kind # "Ok"
            THEN Done(parsed, <<"get_authorize_role_method">>)
            ELSE Match(parsed.v.method, parsed.v.roles)
    IN  Parsed(get_authorize_role_method(authorize))

\* A validate_jwt_header that falls back to the key id "k1" when the header
\* names none (kid.unwrap_or_default-style).
validate_jwt_header_default_kid(token) ==
    LET Header(header) ==
            IF header.kind # "Ok"
            THEN Err("InvalidJwt", "Invalid JWT Header.")
            ELSE Ok([kid |-> IF header.v.kid.some THEN header.v.kid.v ELSE "k1",
                     algorithm |-> header.v.alg])
    IN  Header(decode_header(token))

\* validate_jwt_header(token) -> Result<(kid, algorithm)>
validate_jwt_header(token) ==
    LET Header(header) ==
            IF header.kind # "Ok"
            THEN Err("InvalidJwt", "Invalid JWT Header.")
            ELSE IF ~header.v.kid.some
            THEN Err("InvalidJwt", "Token doesn't have a kid header field.")
            ELSE Ok([kid |-> header.v.kid.v, algorithm |-> header.v.alg])
    IN  Header(decode_header(token))

\* validate_jwt_with_roles(token, kid, algorithm, authorize, settings)
validate_jwt_with_roles(token, kid, algorithm, authorize, settings, now) ==
    LET Roles(r) ==
            Done(r, <<"get_auth2_public_key", "DecodingKey::try_from",
                      "get_oauth2_config", "decode">> \o r.calls)
        Decoded(decoded_token) ==
            IF decoded_token.kind # "Ok"
            THEN Done(decoded_token,
                      <<"get_auth2_public_key", "DecodingKey::try_from",
                        "get_oauth2_config", "decode">>)
            ELSE Roles(validate_jwt_roles(decoded_token.v, authorize))
        Issuer(decoded_public_key, config) ==
            IF ~config.some
            THEN Done(Err("Configuration", "Security not configured.."),
                      <<"get_auth2_public_key", "DecodingKey::try_from",
                        "get_oauth2_config">>)
            ELSE IF ~config.v.issuer_uri.some
            THEN Done(Err("Configuration", "Issuer URI not configured."),
                      <<"get_auth2_public_key", "DecodingKey::try_from",
                        "get_oauth2_config">>)
            ELSE Decoded(decode(token, decoded_public_key,
                                Validation(algorithm, config.v.issuer_uri.v), now))
        Key(decoded_public_key) ==
            IF decoded_public_key.kind # "Ok"
            THEN Done(Err("InvalidPublicKey", decoded_public_key.detail),
                      <<"get_auth2_public_key", "DecodingKey::try_from">>)
            ELSE Issuer(decoded_public_key.v, get_oauth2_config(settings))
        Lookup(public_key) ==
            IF ~public_key.some
            THEN Done(Err("InvalidPublicKey", "Public key not found for key id"),
                      <<"get_auth2_public_key">>)
            ELSE Key(DecodingKey_try_from(public_key.v))
    IN  Lookup(get_auth2_public_key(settings, kid))

\* A validate_jwt without the `?` on the header: the remaining steps run
\* (with an empty key id when the header gave none) and their error wins.
validate_jwt_no_short_circuit(token, settings, authorize, now) ==
    LET Both(h, r) ==
            IF r.kind # "Ok" \/ h.kind = "Ok"
            THEN Done(r, <<"validate_jwt_header">> \o r.calls)
            ELSE Done(h, <<"validate_jwt_header">> \o r.calls)
    IN  Both(validate_jwt_header(token),
             validate_jwt_with_roles(token,
                                     IF token.kid.some THEN token.kid.v ELSE "",
                                     token.alg, authorize, settings, now))

\* validate_jwt(token, settings, authorize)
validate_jwt(token, settings, authorize, now) ==
    LET Rest(r) == Done(r, <<"validate_jwt_header">> \o r.calls)
        Header(h) ==
            IF h.kind # "Ok"
            THEN Done(h, <<"validate_jwt_header">>)
            ELSE Rest(validate_jwt_with_roles(token, h.v.kid, h.v.algorithm,
                                              authorize, settings, now))
    IN  Header(validate_jwt_header(token))

\* ------------------------------------------------------------------------
\* server.rs : Server
\*
\* A Server is [running, settings]; args, fnconfig and database play no part
\* in authorization.
\* ------------------------------------------------------------------------

\* A discovery that merges: what the discovery document leaves unset (the
\* client credentials, the inline keys) is kept from the static section.
discover_oauth_security_settings_merges(settings, net) ==
    LET oauth2 == get_oauth2_config(settings) IN
    IF ~oauth2.some
    THEN Err("Configuration", "Oauth2 security settings not found.")
    ELSE IF /\ oauth2.v.discovery_enabled = Some(TRUE)
            /\ oauth2.v.discovery_url.some
    THEN IF net.discovery.status # "ok"
         THEN Err("Configuration", net.discovery.status)
         ELSE
         LET discovery == [net.discovery.body EXCEPT
                              !.enabled           = oauth2.v.enabled,
                              !.discovery_url     = oauth2.v.discovery_url,
                              !.discovery_enabled = Some(TRUE),
                              !.client            = IF net.discovery.body.client.some
                                                    THEN net.discovery.body.client
                                                    ELSE oauth2.v.client,
                              !.jwks              = IF net.discovery.body.jwks.some
                                                    THEN net.discovery.body.jwks
                                                    ELSE oauth2.v.jwks]
         IN  IF discovery.jwks_uri.some
             THEN IF net.jwks.status # "ok"
                  THEN Err("Configuration", net.jwks.status)
                  ELSE Ok([settings EXCEPT !.security = Some([oauth2 |->
                              Some([discovery EXCEPT !.jwks = Some(net.jwks.body)])])])
             ELSE Ok([settings EXCEPT !.security = Some([oauth2 |-> Some(discovery)])])
    ELSE Ok(settings)

\* A discovery that keeps the discovered document when the JWKS GET fails
\* (the failure logged, not propagated with `?`).
discover_oauth_security_settings_partial(settings, net) ==
    LET oauth2 == get_oauth2_config(settings) IN
    IF ~oauth2.some
    THEN Err("Configuration", "Oauth2 security settings not found.")
    ELSE IF /\ oauth2.v.discovery_enabled = Some(TRUE)
            /\ oauth2.v.discovery_url.some
    THEN IF net.discovery.status # "ok"
         THEN Err("Configuration", net.discovery.status)
         ELSE
         LET discovery == [net.discovery.body EXCEPT
                              !.enabled           = oauth2.v.enabled,
                              !.discovery_url     = oauth2.v.discovery_url,
                              !.discovery_enabled = Some(TRUE)]
         IN  IF discovery.jwks_uri.some
             THEN IF net.jwks.status # "ok"
                  THEN Ok([settings EXCEPT !.security = Some([oauth2 |-> Some(discovery)])])
                  ELSE Ok([settings EXCEPT !.security = Some([oauth2 |->
                              Some([discovery EXCEPT !.jwks = Some(net.jwks.body)])])])
             ELSE Ok([settings EXCEPT !.security = Some([oauth2 |-> Some(discovery)])])
    ELSE Ok(settings)

\* Server::discover_oauth_security_settings(settings) with the provider
\* answering net.discovery to the discovery GET and net.jwks to the JWKS GET.
\* An answer is [status |-> "error"] (send failed), [status |-> "badjson"]
\* (the body does not deserialize) or [status |-> "ok", body |-> ...].
discover_oauth_security_settings(settings, net) ==
    LET oauth2 == get_oauth2_config(settings) IN
    IF ~oauth2.some
    THEN Err("Configuration", "Oauth2 security settings not found.")
    ELSE IF /\ oauth2.v.discovery_enabled = Some(TRUE)
            /\ oauth2.v.discovery_url.some
    THEN IF net.discovery.status # "ok"
         THEN Err("Configuration", net.discovery.status)
         ELSE
         LET discovery == [net.discovery.body EXCEPT
                              !.enabled           = oauth2.v.enabled,
                              !.discovery_url     = oauth2.v.discovery_url,
                              !.discovery_enabled = Some(TRUE)]
         IN  IF discovery.jwks_uri.some
             THEN IF net.jwks.status # "ok"
                  THEN Err("Configuration", net.jwks.status)
                  ELSE Ok([settings EXCEPT !.security = Some([oauth2 |->
                              Some([discovery EXCEPT !.jwks = Some(net.jwks.body)])])])
             ELSE Ok([settings EXCEPT !.security = Some([oauth2 |-> Some(discovery)])])
    ELSE Ok(settings)

\* Server::init / Server::new_with_settings : the discovered settings, or
\* the given ones when discovery returns Err.
new_with_settings(settings, net) ==
    LET result == discover_oauth_security_settings(settings, net) IN
    [ running  |-> FALSE,
      settings |-> Some(IF result.kind = "Ok" THEN result.v ELSE settings) ]

\* Server::new : no settings loaded.
new == [running |-> FALSE, settings |-> None]

\* A set_global that replaces the stored server.
set_global_overwrite(cell, server) == Some(server)

\* Server::set_global on the OnceLock cell: the first value stays.
set_global(cell, server) == IF cell.some THEN cell ELSE Some(server)

\* Server::global
global(cell) == IF cell.some THEN Ok(cell.v) ELSE Err("NotInitialized", "")

\* A request is [authorization]: None when the header is missing or is not
\* visible ASCII, else Some([bearer, token]); trim_start_matches("Bearer ")
\* leaves the token when the value is the token with or without "Bearer "
\* in front, and a string that is no token for any other scheme.
NotAToken ==
    [ wellformed |-> FALSE, kid |-> None, alg |-> "RS256", sig |-> "",
      payload_ok |-> FALSE,
      claims |-> [exp |-> None, iss |-> None, aud |-> None, resource_access |-> None] ]

\* A GlobalServer::validate_jwt that passes an empty token on when the
\* request has no Authorization header (unwrap_or_default instead of
\* ok_or_else).
GlobalServer_validate_jwt_empty_token(self, request, authorize, now) ==
    IF ~self.settings.some
    THEN Done(Err("Configuration", "Settings not configured."), <<>>)
    ELSE validate_jwt(IF request.authorization.some /\ request.authorization.v.bearer
                      THEN request.authorization.v.token
                      ELSE NotAToken,
                      self.settings.v, authorize, now)

\* GlobalServer::validate_jwt(&self, request, authorize)
GlobalServer_validate_jwt(self, request, authorize, now) ==
    IF ~request.authorization.some
    THEN Done(Err("InvalidJwt", "Invalid JWT Header in request."), <<>>)
    ELSE IF ~self.settings.some
    THEN Done(Err("Configuration", "Settings not configured."), <<>>)
    ELSE validate_jwt(IF request.authorization.v.bearer
                      THEN request.authorization.v.token
                      ELSE NotAToken,
                      self.settings.v, authorize, now)

\* ------------------------------------------------------------------------
\* server-macros : #[secured] -> auth_middleware
\* ------------------------------------------------------------------------

\* An auth_middleware that answers 401 only to a token it could not read,
\* and lets a request through whose roles fall short.
auth_middleware_roles_ignored(cell, request, authorize, now) ==
    LET Validated(result) ==
            IF result.kind \notin {"Ok", "InvalidRoles"}
            THEN [result |-> result, status |-> "401 Unauthorized", handler_ran |-> FALSE]
            ELSE [result |-> result, status |-> "next.call", handler_ran |-> TRUE]
        Global(server) ==
            IF server.kind # "Ok"
            THEN [ result |-> Done(server, <<>>),
                   status |-> "500 Internal Server Error",
                   handler_ran |-> FALSE ]
            ELSE Validated(GlobalServer_validate_jwt(server.v, request, authorize, now))
    IN  Global(global(cell))

\* auth_middleware(req, next) of an endpoint secured with `authorize`:
\* [result, status, handler_ran]; next.call(req) runs the handler body.
auth_middleware(cell, request, authorize, now) ==
    LET Validated(result) ==
            IF result.kind # "Ok"
            THEN [result |-> result, status |-> "401 Unauthorized", handler_ran |-> FALSE]
            ELSE [result |-> result, status |-> "next.call", handler_ran |-> TRUE]
        Global(server) ==
            IF server.kind # "Ok"
            THEN [ result |-> Done(server, <<>>),
                   status |-> "500 Internal Server Error",
                   handler_ran |-> FALSE ]
            ELSE Validated(GlobalServer_validate_jwt(server.v, request, authorize, now))
    IN  Global(global(cell))

\* ------------------------------------------------------------------------
\* Inputs
\* ------------------------------------------------------------------------

\* Earliest reading of the clock, in seconds, and how far it may advance.
T0 == 1000

MaxClock == 1

Times == T0..(T0 + MaxClock)

Issuer1 == "https://issuer.example"

Issuer2 == "https://other.example"

Jwk(kid, family, material, wellformed) ==
    [kid |-> Some(kid), family |-> family, material |-> material,
     wellformed |-> wellformed]

\* Key sets of the configuration: none, one RSA key, several keys (two of
\* them under the same kid), a key whose parameters do not decode, and a
\* symmetric key.
JwkSets ==
    { None,
      Some(<<Jwk("k1", "Rsa", "m1", TRUE)>>),
      Some(<<Jwk("k1", "Rsa", "m1", TRUE), Jwk("k1", "Rsa", "m2", TRUE),
             Jwk("K1", "Rsa", "m2", TRUE)>>),
      Some(<<Jwk("k1", "Rsa", "m1", FALSE)>>),
      Some(<<Jwk("k1", "Hmac", "m1", TRUE)>>) }

OAuth2Configuration(discovery_enabled, issuer_uri, jwks_uri, jwks) ==
    [ enabled           |-> Some(TRUE),
      discovery_enabled |-> discovery_enabled,
      discovery_url     |-> IF discovery_enabled = Some(TRUE)
                            THEN Some("https://idp.example/.well-known/openid-configuration")
                            ELSE None,
      issuer_uri        |-> issuer_uri,
      jwks_uri          |-> jwks_uri,
      token_uri         |-> None,
      client            |-> Some("client"),
      jwks              |-> jwks ]

\* Settings: the server, data and metrics sections, which the authorization
\* path never reads, and the security section.
Settings(security) ==
    [ server   |-> Some("server"),
      data     |-> Some("data"),
      metrics  |-> Some("metrics"),
      security |-> security ]

WithOAuth2(oauth2) == Settings(Some([oauth2 |-> Some(oauth2)]))

\* What the configuration file may hold.
StaticSettings ==
    { Settings(None) }
    \cup { WithOAuth2(OAuth2Configuration(None, Some(Issuer1), None, jwks)) :
             jwks \in JwkSets }
    \cup { WithOAuth2(OAuth2Configuration(Some(FALSE), None, None,
                                          Some(<<Jwk("k1", "Rsa", "m1", TRUE)>>))),
           WithOAuth2(OAuth2Configuration(Some(TRUE), Some(Issuer1), None,
                                          Some(<<Jwk("k1", "Rsa", "m1", TRUE)>>))) }

\* What the configuration file of a startup may hold besides: a security
\* section without oauth2, and a jwks-uri without inline keys, with the
\* discovery disabled or enabled without a discovery URL.
StartupSettings ==
    StaticSettings
    \cup { Settings(Some([oauth2 |-> None])),
           WithOAuth2(OAuth2Configuration(Some(FALSE), Some(Issuer1),
                                          Some("https://idp.example/certs"), None)),
           WithOAuth2([OAuth2Configuration(Some(TRUE), Some(Issuer1),
                                           Some("https://idp.example/certs"), None)
                         EXCEPT !.discovery_url = None]) }

\* What the provider may answer: the discovery document as it deserializes
\* into OAuth2Configuration, and the key set.
DiscoveryDocument(jwks_uri) ==
    [ enabled           |-> None,
      discovery_enabled |-> None,
      discovery_url     |-> None,
      issuer_uri        |-> Some(Issuer2),
      jwks_uri          |-> jwks_uri,
      token_uri         |-> Some("https://idp.example/token"),
      client            |-> None,
      jwks              |-> None ]

Answers(bodies) ==
    { [status |-> "error"], [status |-> "badjson"] }
    \cup { [status |-> "ok", body |-> b] : b \in bodies }

Networks ==
    [ discovery : Answers({ DiscoveryDocument(None),
                            DiscoveryDocument(Some("https://idp.example/certs")) }),
      jwks      : Answers({ <<Jwk("K1", "Rsa", "m2", TRUE)>> }) ]

RawRoles ==
    { <<"a">>, <<"a","-","b">>, <<"a"," ","b">>, <<"a",".","b">>,
      <<"R","O","L","E","_","a">>, <<"x">> }

\* resource_access claims: a map from resource names to role lists.
ResourceAccesses ==
    { None }
    \cup { Some([n \in {"api"} |-> <<r>>]) :
             r \in { <<"a">>, <<"a",".","b">>, <<"R","O","L","E","_","a">> } }
    \cup { Some([n \in {"api", "web"} |->
                   IF n = "api" THEN <<<<"x">>, <<"a","-","b">>>> ELSE <<<<"a"," ","b">>>>]) }

AllTokens ==
    [ wellformed : {TRUE},
      kid        : { None, Some("k1"), Some("K1") },
      alg        : { "RS256", "HS256" },
      sig        : { "m1", "m2" },
      payload_ok : {TRUE},
      claims     : [ exp : { None, Some(T0 - Leeway), Some(T0 - 1),
                             Some(T0 + MaxClock + 3600) },
                     iss : { None, Some(Issuer1), Some(Issuer2) },
                     aud : { None, Some("account") },
                     resource_access : ResourceAccesses ] ]

\* A token as the provider of the static configuration issues it, and one
\* as the discovered provider issues it.
GoodToken(kid, sig, iss) ==
    [ wellformed |-> TRUE, kid |-> Some(kid), alg |-> "RS256", sig |-> sig,
      payload_ok |-> TRUE,
      claims |-> [ exp |-> Some(T0 + MaxClock + 3600), iss |-> Some(iss),
                   aud |-> None,
                   resource_access |-> Some([n \in {"api"} |-> <<<<"a">>>>]) ] ]

GoodTokens == { GoodToken("k1", "m1", Issuer1), GoodToken("K1", "m2", Issuer2) }

\* In how many header fields, signature and claims two tokens differ.
Distance(t, b) ==
    Cardinality({ f \in {"kid", "alg", "sig"} : t[f] # b[f] })
    + Cardinality({ f \in {"exp", "iss", "aud", "resource_access"} :
                      t.claims[f] # b.claims[f] })

\* How many of those a presented token may have wrong at once.
MaxFaults == 2

Tokens ==
    { t \in AllTokens : \E b \in GoodTokens : Distance(t, b) <= MaxFaults }
    \cup { NotAToken,
           [GoodToken("k1", "m1", Issuer1) EXCEPT !.payload_ok = FALSE] }

Requests ==
    { [authorization |-> None],
      [authorization |-> Some([bearer |-> FALSE, token |-> NotAToken])] }
    \cup { [authorization |-> Some([bearer |-> TRUE, token |-> t])] : t \in Tokens }

\* A bare policy naming the role as get_roles normalizes it.
BarePolicy(r) == normalize_role(r)

\* The authorize strings of the secured endpoints: bare roles,
\*   hasAnyRole(ROLE_Z, role_a)      hasAllRoles(ROLE_A_B,ROLE_X)
\*   hasAnyRole(ROLE_A)              " HASALLROLES( role_x , ROLE_A , ROLE_Z ) "
\*   " role_a "                      unknown(ROLE_A)
\*   hasAnyRole()                    and the empty string.
Policies ==
    { BarePolicy(r) : r \in (RawRoles \ {<<"x">>}) }
    \cup { <<>>,
           <<"h","a","s","A","n","y","R","o","l","e","(",
             "R","O","L","E","_","Z",","," ","r","o","l","e","_","a",")">>,
           <<"h","a","s","A","l","l","R","o","l","e","s","(",
             "R","O","L","E","_","A","_","B",",","R","O","L","E","_","X",")">>,
           <<"h","a","s","A","n","y","R","o","l","e","(","R","O","L","E","_","A",")">>,
           <<" ","H","A","S","A","L","L","R","O","L","E","S","(",
             " ","r","o","l","e","_","x"," ",","," ","R","O","L","E","_","A"," ",",",
             " ","R","O","L","E","_","Z"," ",")"," ">>,
           <<" ","r","o","l","e","_","a"," ">>,
           <<"h","a","s","A","n","y","R","o","l","e","(",")">>,
           <<"u","n","k","n","o","w","n","(","R","O","L","E","_","A",")">> }

\* The servers startup can build: every configuration file against every
\* behaviour of the provider.
Startups ==
    { new_with_settings(settings, net) : settings \in StaticSettings, net \in Networks }

\* ------------------------------------------------------------------------
\* State
\* ------------------------------------------------------------------------

VARIABLES
    SERVER,     \* the OnceLock: None, or Some(Server)
    exchange,   \* None, or the request in progress: the OnceLock as the
                \* middleware read it, the request, the endpoint's authorize
                \* string, the time, and the outcome
    startup,    \* the startup in progress or last run, step by step: its
                \* number n, its entry ("main" or "test"), its position pc,
                \* the settings loaded, the answers to its two GETs, and the
                \* Server it built
    fetches,    \* the outbound GETs of that startup, in order
    calls,      \* the validate_jwt calls in progress, one per worker
    runs,       \* a Server instance and the calls of run() on it: how many
                \* were made, how many bootstrapped the HTTP servers, how
                \* many returned with the warning, how many are serving
    env         \* the test environment of test.rs: the position of the test
                \* thread (main) and of the thread setup() spawns (bg), the
                \* three channels, CONTAINERS, the containers the removal
                \* loop has still to visit and those whose removal it
                \* attempted

vars == <<SERVER, exchange, startup, fetches, calls, runs, env>>

\* How many workers validate at the same time.
MaxCalls == 2

Workers == 1..MaxCalls

\* A worker that is in no validate_jwt call.
IdleCall == [pc |-> "idle", header |-> None, result |-> None]

\* How many times run() is called on one instance.
MaxRuns == 3

\* No instance built, run() not called.
NoRuns ==
    [ instance |-> None, calls |-> 0, bootstraps |-> 0, warned |-> 0, serving |-> 0 ]

\* The names under which containers are registered, and how many
\* add_container calls one test run makes.
ContainerNames == {"keycloak", "postgres"}

MaxContainers == 2

\* A container id: the 64 hexadecimal characters Docker gives, or a string
\* of fewer than 13 bytes.
ContainerIds == {"docker", "short"}

\* Before setup(): no thread, empty channels, no container.
NoEnv ==
    [ main       |-> "start",
      bg         |-> "none",
      initialize |-> 0,
      container  |-> 0,
      shutdown   |-> 0,
      added      |-> 0,
      CONTAINERS |-> [n \in {} |-> "docker"],
      pending    |-> {},
      attempted  |-> {} ]

\* No startup has begun.
Idle ==
    [ n |-> 0, entry |-> "", pc |-> "idle", settings |-> None,
      discovery |-> None, jwks |-> None, server |-> None ]

Init ==
    /\ SERVER = None
    /\ exchange = None
    /\ startup = Idle
    /\ fetches = <<>>
    /\ calls = [w \in Workers |-> IdleCall]
    /\ runs = NoRuns
    /\ env = NoEnv

\* The generated main: Server::new, init, configure (each aborts when the
\* global is set), then Server::set_global.
Main ==
    /\ ~SERVER.some
    /\ \E server \in Startups : SERVER' = set_global(SERVER, server)
    /\ UNCHANGED <<exchange, startup, fetches>>
    /\ UNCHANGED <<calls, runs, env>>

\* test::setup : Server::new_with_settings, intialize_database and, when the
\* database came up, Server::set_global.
TestSetup ==
    /\ \E server \in Startups, database \in BOOLEAN :
          SERVER' = IF database THEN set_global(SERVER, server) ELSE SERVER
    /\ UNCHANGED <<exchange, startup, fetches>>
    /\ UNCHANGED <<calls, runs, env>>

\* Server::set_global(Server::new()), as in set_global's example.
SetGlobalNew ==
    /\ ~SERVER.some
    /\ SERVER' = set_global(SERVER, new)
    /\ UNCHANGED <<exchange, startup, fetches>>
    /\ UNCHANGED <<calls, runs, env>>

\* A client calls a secured endpoint and waits for the answer.
Request ==
    /\ ~exchange.some
    /\ \E request \in Requests, authorize \in Policies, now \in Times :
          exchange' = Some([ cell      |-> SERVER,
                             request   |-> request,
                             authorize |-> authorize,
                             now       |-> now,
                             outcome   |-> auth_middleware(SERVER, request, authorize, now) ])
    /\ UNCHANGED <<SERVER, startup, fetches>>
    /\ UNCHANGED <<calls, runs, env>>

\* The answer reaches the client.
Respond ==
    /\ exchange.some
    /\ exchange' = None
    /\ UNCHANGED <<SERVER, startup, fetches>>
    /\ UNCHANGED <<calls, runs, env>>

Next == Main \/ TestSetup \/ SetGlobalNew \/ Request \/ Respond

Spec == Init /\ [][Next]_vars

\* ------------------------------------------------------------------------
\* Startup, step by step: the awaits of discover_oauth_security_settings
\* are the places where a startup can be overtaken by requests.
\* ------------------------------------------------------------------------

\* How many startups one process goes through (a main, or the setups of
\* its tests).
MaxStartups == 2

\* The condition of the `if` around the discovery: discovery is enabled and
\* a discovery URL is set.
discovery_requested(settings) ==
    /\ get_oauth2_config(settings).some
    /\ get_oauth2_config(settings).v.discovery_enabled = Some(TRUE)
    /\ get_oauth2_config(settings).v.discovery_url.some

\* The answers the provider may give to the two GETs, and no answer (the
\* GET was not sent).
DiscoveryAnswers == { net.discovery : net \in Networks }

JwksAnswers == { net.jwks : net \in Networks }

NoAnswer == [status |-> "none"]

Begin(entry, settings) ==
    [ n |-> startup.n + 1, entry |-> entry, pc |-> "discover",
      settings |-> Some(settings), discovery |-> None, jwks |-> None,
      server |-> None ]

\* A main that publishes the server as loaded, before the discovery.
StartMain_publish_first ==
    /\ startup.pc \in {"idle", "done", "nodb"}
    /\ startup.n < MaxStartups
    /\ ~SERVER.some
    /\ \E settings \in StartupSettings :
          /\ startup' = Begin("main", settings)
          /\ SERVER' = set_global(SERVER, [running |-> FALSE, settings |-> Some(settings)])
    /\ fetches' = <<>>
    /\ UNCHANGED exchange
    /\ UNCHANGED <<calls, runs, env>>

\* The generated main up to the discovery: Server::new (which panics when
\* the global is set) and init's Cli::load_config.
StartMain ==
    /\ startup.pc \in {"idle", "done", "nodb"}
    /\ startup.n < MaxStartups
    /\ ~SERVER.some
    /\ \E settings \in StartupSettings : startup' = Begin("main", settings)
    /\ fetches' = <<>>
    /\ UNCHANGED <<SERVER, exchange>>
    /\ UNCHANGED <<calls, runs, env>>

\* test::setup up to the discovery: init() hands over the settings and
\* Server::new_with_settings begins.
StartTest ==
    /\ startup.pc \in {"idle", "done", "nodb"}
    /\ startup.n < MaxStartups
    /\ \E settings \in StartupSettings : startup' = Begin("test", settings)
    /\ fetches' = <<>>
    /\ UNCHANGED <<SERVER, exchange>>
    /\ UNCHANGED <<calls, runs, env>>

\* A resolution that, with the discovery off, fetches the key set from a
\* configured jwks-uri when the configuration holds no keys.
ResolveStatic_fetches_jwks ==
    /\ startup.pc = "discover"
    /\ ~discovery_requested(startup.settings.v)
    /\ LET oauth2 == get_oauth2_config(startup.settings.v)
           Fetch == oauth2.some /\ oauth2.v.jwks_uri.some /\ ~oauth2.v.jwks.some
       IN  /\ startup' = [startup EXCEPT
                            !.pc = "publish",
                            !.server = Some(
                                [ running  |-> FALSE,
                                  settings |-> Some(
                                      IF Fetch
                                      THEN WithOAuth2([oauth2.v EXCEPT !.jwks =
                                               Some(<<Jwk("K1", "Rsa", "m2", TRUE)>>)])
                                      ELSE startup.settings.v) ])]
           /\ fetches' = IF Fetch THEN Append(fetches, "jwks") ELSE fetches
    /\ UNCHANGED <<SERVER, exchange>>
    /\ UNCHANGED <<calls, runs, env>>

\* discover_oauth_security_settings returns without a GET: no oauth2
\* section (Err, and the caller keeps the settings), or discovery not
\* requested (Ok(settings.clone())).
ResolveStatic ==
    /\ startup.pc = "discover"
    /\ ~discovery_requested(startup.settings.v)
    /\ startup' = [startup EXCEPT
                      !.pc = "publish",
                      !.server = Some(new_with_settings(
                                     startup.settings.v,
                                     [discovery |-> NoAnswer, jwks |-> NoAnswer]))]
    /\ UNCHANGED <<SERVER, exchange, fetches>>
    /\ UNCHANGED <<calls, runs, env>>

\* The GET of the discovery document and its .json(): on an answer that
\* names a jwks_uri the JWKS GET follows, on any other the function returns.
DiscoveryGet ==
    /\ startup.pc = "discover"
    /\ discovery_requested(startup.settings.v)
    /\ \E answer \in DiscoveryAnswers :
          startup' =
              IF answer.status = "ok" /\ answer.body.jwks_uri.some
              THEN [startup EXCEPT !.pc = "jwks", !.discovery = Some(answer)]
              ELSE [startup EXCEPT
                      !.pc = "publish",
                      !.discovery = Some(answer),
                      !.server = Some(new_with_settings(
                                     startup.settings.v,
                                     [discovery |-> answer, jwks |-> NoAnswer]))]
    /\ fetches' = Append(fetches, "discovery")
    /\ UNCHANGED <<SERVER, exchange>>
    /\ UNCHANGED <<calls, runs, env>>

\* A JWKS GET that is sent once more when it fails.
JwksGet_retry ==
    /\ startup.pc = "jwks"
    /\ \E answer \in JwksAnswers :
          startup' =
              IF answer.status # "ok" /\ Len(fetches) < 3
              THEN startup
              ELSE [startup EXCEPT
                      !.pc = "publish",
                      !.jwks = Some(answer),
                      !.server = Some(new_with_settings(
                                     startup.settings.v,
                                     [discovery |-> startup.discovery.v,
                                      jwks |-> answer]))]
    /\ fetches' = Append(fetches, "jwks")
    /\ UNCHANGED <<SERVER, exchange>>
    /\ UNCHANGED <<calls, runs, env>>

\* The GET of the key set and its .json(); the function returns.
JwksGet ==
    /\ startup.pc = "jwks"
    /\ \E answer \in JwksAnswers :
          startup' = [startup EXCEPT
                        !.pc = "publish",
                        !.jwks = Some(answer),
                        !.server = Some(new_with_settings(
                                       startup.settings.v,
                                       [discovery |-> startup.discovery.v,
                                        jwks |-> answer]))]
    /\ fetches' = Append(fetches, "jwks")
    /\ UNCHANGED <<SERVER, exchange>>
    /\ UNCHANGED <<calls, runs, env>>

\* Server::set_global(server) after the awaits: always in main, and in
\* test::setup when intialize_database returned Ok.
Publish ==
    /\ startup.pc = "publish"
    /\ \E database \in (IF startup.entry = "test" THEN BOOLEAN ELSE {TRUE}) :
          /\ SERVER' = IF database
                       THEN set_global(SERVER, startup.server.v)
                       ELSE SERVER
          /\ startup' = [startup EXCEPT !.pc = IF database THEN "done" ELSE "nodb"]
    /\ UNCHANGED <<exchange, fetches>>
    /\ UNCHANGED <<calls, runs, env>>

\* The requests that meet a startup: no Authorization header, and the
\* tokens of the two providers.
StartupRequests ==
    { [authorization |-> None] }
    \cup { [authorization |-> Some([bearer |-> TRUE, token |-> t])] : t \in GoodTokens }

\* A client calls a secured endpoint while the process starts or after.
RequestAtStartup ==
    /\ ~exchange.some
    /\ \E request \in StartupRequests :
          exchange' = Some([ cell      |-> SERVER,
                             request   |-> request,
                             authorize |-> BarePolicy(<<"a">>),
                             now       |-> T0,
                             outcome   |-> auth_middleware(SERVER, request,
                                                           BarePolicy(<<"a">>), T0) ])
    /\ UNCHANGED <<SERVER, startup, fetches>>
    /\ UNCHANGED <<calls, runs, env>>

NextStartup ==
    \/ StartMain
    \/ StartTest
    \/ ResolveStatic
    \/ DiscoveryGet
    \/ JwksGet
    \/ Publish
    \/ RequestAtStartup
    \/ Respond

SpecStartup == Init /\ [][NextStartup]_vars

\* ------------------------------------------------------------------------
\* Startup against a provider that may not answer.  The client of the
\* discovery is reqwest::Client::new(), which sets no timeout: a GET whose
\* response never comes is an await that never completes.
\* ------------------------------------------------------------------------

\* The discovery GET is sent and no response ever arrives.
DiscoveryHang ==
    /\ startup.pc = "discover"
    /\ discovery_requested(startup.settings.v)
    /\ startup' = [startup EXCEPT !.pc = "hung"]
    /\ fetches' = Append(fetches, "discovery")
    /\ UNCHANGED <<SERVER, exchange, calls, runs, env>>

\* The JWKS GET is sent and no response ever arrives.
JwksHang ==
    /\ startup.pc = "jwks"
    /\ startup' = [startup EXCEPT !.pc = "hung"]
    /\ fetches' = Append(fetches, "jwks")
    /\ UNCHANGED <<SERVER, exchange, calls, runs, env>>

NextStartupLive == NextStartup \/ DiscoveryHang \/ JwksHang

\* The runtime keeps polling the startup task: a step that can be taken is
\* taken, a GET that is due is sent (answered or not), and a published
\* server follows a resolved one.
SpecStartupLive ==
    /\ Init
    /\ [][NextStartupLive]_vars
    /\ WF_vars(ResolveStatic)
    /\ WF_vars(DiscoveryGet \/ DiscoveryHang)
    /\ WF_vars(JwksGet \/ JwksHang)
    /\ WF_vars(Publish)

\* ------------------------------------------------------------------------
\* Concurrent validations: the workers of the HTTP server call validate_jwt
\* on the settings of the one global server, each call taking its steps
\* (validate_jwt_header, then validate_jwt_with_roles) between the steps of
\* the others.
\* ------------------------------------------------------------------------

\* The tokens and policies the workers are given: the tokens of the two
\* providers and one without kid, against a bare role and a hasAllRoles list.
ConcurrentTokens ==
    GoodTokens \cup { [GoodToken("k1", "m1", Issuer1) EXCEPT !.kid = None] }

ConcurrentPolicies ==
    { BarePolicy(<<"a">>),
      <<"h","a","s","A","l","l","R","o","l","e","s","(",
        "R","O","L","E","_","A","_","B",",","R","O","L","E","_","X",")">> }

\* GlobalServer::validate_jwt hands the token, &settings of the global
\* server and the authorize string to validate_jwt.
CallBegin(w) ==
    /\ calls[w].pc = "idle"
    /\ SERVER.some
    /\ SERVER.v.settings.some
    /\ \E token \in ConcurrentTokens, authorize \in ConcurrentPolicies :
          calls' = [calls EXCEPT ![w] =
                      [ pc        |-> "header",
                        token     |-> token,
                        authorize |-> authorize,
                        now       |-> T0,
                        given     |-> SERVER.v.settings.v,
                        header    |-> None,
                        result    |-> None ]]
    /\ UNCHANGED <<SERVER, exchange, startup, fetches, runs, env>>

\* validate_jwt's first statement: validate_jwt_header(token)?
CallHeader(w) ==
    /\ calls[w].pc = "header"
    /\ LET Header(h) ==
               IF h.kind # "Ok"
               THEN [calls EXCEPT ![w].pc = "done",
                                  ![w].result = Some(Done(h, <<"validate_jwt_header">>))]
               ELSE [calls EXCEPT ![w].pc = "rest", ![w].header = Some(h.v)]
       IN  calls' = Header(validate_jwt_header(calls[w].token))
    /\ UNCHANGED <<SERVER, exchange, startup, fetches, runs, env>>

\* A validate_jwt_with_roles step that drops the key set of the shared
\* settings when the verification of its token fails.
CallRest_evicts_keys(w) ==
    /\ calls[w].pc = "rest"
    /\ LET Rest(r) ==
               /\ calls' = [calls EXCEPT
                              ![w].pc = "done",
                              ![w].result = Some(Done(r, <<"validate_jwt_header">> \o r.calls))]
               /\ SERVER' = IF r.kind = "Ok" \/ ~get_oauth2_config(SERVER.v.settings.v).some
                            THEN SERVER
                            ELSE [SERVER EXCEPT !.v.settings.v.security.v.oauth2.v.jwks = None]
       IN  Rest(validate_jwt_with_roles(calls[w].token, calls[w].header.v.kid,
                                        calls[w].header.v.algorithm, calls[w].authorize,
                                        SERVER.v.settings.v, calls[w].now))
    /\ UNCHANGED <<exchange, startup, fetches, runs, env>>

\* validate_jwt's second statement: validate_jwt_with_roles(token, &kid,
\* &algorithm, authorize, settings), reading the shared settings.
CallRest(w) ==
    /\ calls[w].pc = "rest"
    /\ LET Rest(r) ==
               [calls EXCEPT ![w].pc = "done",
                             ![w].result = Some(Done(r, <<"validate_jwt_header">> \o r.calls))]
       IN  calls' = Rest(validate_jwt_with_roles(calls[w].token, calls[w].header.v.kid,
                                                 calls[w].header.v.algorithm,
                                                 calls[w].authorize,
                                                 SERVER.v.settings.v, calls[w].now))
    /\ UNCHANGED <<SERVER, exchange, startup, fetches, runs, env>>

\* The call returns and the worker takes the next request.
CallReturn(w) ==
    /\ calls[w].pc = "done"
    /\ calls' = [calls EXCEPT ![w] = IdleCall]
    /\ UNCHANGED <<SERVER, exchange, startup, fetches, runs, env>>

NextConcurrent ==
    \/ Main
    \/ \E w \in Workers : CallBegin(w)
    \/ \E w \in Workers : CallHeader(w)
    \/ \E w \in Workers : CallRest(w)
    \/ \E w \in Workers : CallReturn(w)

SpecConcurrent == Init /\ [][NextConcurrent]_vars

\* ------------------------------------------------------------------------
\* Server::run.  For run() a Server instance is the Server and whether its
\* args are Some: init() stores them, new() and new_with_settings() do not.
\* ------------------------------------------------------------------------

\* GlobalServer::is_running
is_running(self) == self.running

\* A run that sets the flag of the instance it was called on (self.running =
\* true, on a &mut self).
run_marks_self(self, args) ==
    IF self.running
    THEN [self |-> self, warned |-> TRUE, bootstrapped |-> FALSE]
    ELSE [ self         |-> [self EXCEPT !.running = TRUE],
           warned       |-> FALSE,
           bootstrapped |-> args /\ self.settings.some ]

\* Server::run(&self): the early return on self.running, then
\* `self.clone().running = true`, which sets the flag of a temporary clone
\* and leaves self as it was, then Cli::init (bootstrap_server) when args and
\* settings are both Some.
run(self, args) ==
    IF self.running
    THEN [self |-> self, warned |-> TRUE, bootstrapped |-> FALSE]
    ELSE [ self         |-> self,
           warned       |-> FALSE,
           bootstrapped |-> args /\ self.settings.some ]

\* Server::new().init(): an instance with args and settings.
BuildInit ==
    /\ ~runs.instance.some
    /\ \E server \in Startups :
          runs' = [runs EXCEPT !.instance = Some([server |-> server, args |-> TRUE])]
    /\ UNCHANGED <<SERVER, exchange, startup, fetches, calls, env>>

\* Server::new_with_settings(settings): settings without args.
BuildWithSettings ==
    /\ ~runs.instance.some
    /\ \E server \in Startups :
          runs' = [runs EXCEPT !.instance = Some([server |-> server, args |-> FALSE])]
    /\ UNCHANGED <<SERVER, exchange, startup, fetches, calls, env>>

\* Server::new(): neither.
BuildNew ==
    /\ ~runs.instance.some
    /\ runs' = [runs EXCEPT !.instance = Some([server |-> new, args |-> FALSE])]
    /\ UNCHANGED <<SERVER, exchange, startup, fetches, calls, env>>

\* server.run() is called, up to the await of Cli::init.
RunCall ==
    /\ runs.instance.some
    /\ runs.calls < MaxRuns
    /\ LET Ran(r) ==
               [ instance   |-> Some([runs.instance.v EXCEPT !.server = r.self]),
                 calls      |-> runs.calls + 1,
                 bootstraps |-> runs.bootstraps + (IF r.bootstrapped THEN 1 ELSE 0),
                 warned     |-> runs.warned + (IF r.warned THEN 1 ELSE 0),
                 serving    |-> runs.serving + (IF r.bootstrapped THEN 1 ELSE 0) ]
       IN  runs' = Ran(run(runs.instance.v.server, runs.instance.v.args))
    /\ UNCHANGED <<SERVER, exchange, startup, fetches, calls, env>>

\* The HTTP servers of one run() shut down: Cli::init returns, the database
\* is closed, run() returns.
RunReturn ==
    /\ runs.serving > 0
    /\ runs' = [runs EXCEPT !.serving = runs.serving - 1]
    /\ UNCHANGED <<SERVER, exchange, startup, fetches, calls, env>>

NextRun == BuildInit \/ BuildWithSettings \/ BuildNew \/ RunCall \/ RunReturn

SpecRun == Init /\ [][NextRun]_vars

\* ------------------------------------------------------------------------
\* The test environment (test.rs): setup() spawns a thread that runs init,
\* starts the server, runs post_init, signals the test thread, waits for the
\* Stop command, removes the containers and signals the shutdown; teardown()
\* sends Stop and waits for that signal.  Each channel is the number of
\* messages in it.
\* ------------------------------------------------------------------------

\* setup() up to its recv: thread::spawn of the body.
SetupSpawn ==
    /\ env.main = "start"
    /\ env' = [env EXCEPT !.main = "setup_wait", !.bg = "init"]
    /\ UNCHANGED <<SERVER, exchange, startup, fetches, calls, runs>>

\* add_container(name, id): called for the containers that init and
\* post_init start, and by the tests; an id under a name already there
\* replaces the old one.
AddContainer ==
    /\ env.bg \in {"init", "post_init"} \/ env.main = "tests"
    /\ env.added < MaxContainers
    /\ \E name \in ContainerNames, id \in ContainerIds :
          env' = [env EXCEPT
                    !.added = env.added + 1,
                    !.CONTAINERS = [n \in DOMAIN env.CONTAINERS \cup {name} |->
                                      IF n = name THEN id ELSE env.CONTAINERS[n]]]
    /\ UNCHANGED <<SERVER, exchange, startup, fetches, calls, runs>>

\* init().await returns.
InitDone ==
    /\ env.bg = "init"
    /\ env' = [env EXCEPT !.bg = "server"]
    /\ UNCHANGED <<SERVER, exchange, startup, fetches, calls, runs>>

\* Server::new_with_settings, intialize_database and, when the database
\* came up, Server::set_global.
ServerStart ==
    /\ env.bg = "server"
    /\ \E server \in Startups, database \in BOOLEAN :
          SERVER' = IF database THEN set_global(SERVER, server) ELSE SERVER
    /\ env' = [env EXCEPT !.bg = "post_init"]
    /\ UNCHANGED <<exchange, startup, fetches, calls, runs>>

\* post_init().await returns.
PostInitDone ==
    /\ env.bg = "post_init"
    /\ env' = [env EXCEPT !.bg = "signal"]
    /\ UNCHANGED <<SERVER, exchange, startup, fetches, calls, runs>>

\* initialize_notifier_channel().tx.send(()), then the spawn_blocking task
\* that waits for a container command.
SendInitialized ==
    /\ env.bg = "signal"
    /\ env' = [env EXCEPT !.bg = "wait_stop", !.initialize = env.initialize + 1]
    /\ UNCHANGED <<SERVER, exchange, startup, fetches, calls, runs>>

\* setup()'s recv gets the signal and setup() returns: the tests run.
SetupReturn ==
    /\ env.main = "setup_wait"
    /\ env.initialize > 0
    /\ env' = [env EXCEPT !.main = "tests", !.initialize = env.initialize - 1]
    /\ UNCHANGED <<SERVER, exchange, startup, fetches, calls, runs>>

\* teardown() up to its recv: send(ContainerCommands::Stop) and the
\* try_lock of the shutdown receiver.
TeardownSend ==
    /\ env.main = "tests"
    /\ env' = [env EXCEPT !.main = "teardown_wait", !.container = env.container + 1]
    /\ UNCHANGED <<SERVER, exchange, startup, fetches, calls, runs>>

\* The blocking task receives Stop and locks CONTAINERS for the loop.
ReceiveStop ==
    /\ env.bg = "wait_stop"
    /\ env.container > 0
    /\ env' = [env EXCEPT !.bg = "removing",
                          !.container = env.container - 1,
                          !.pending = DOMAIN env.CONTAINERS]
    /\ UNCHANGED <<SERVER, exchange, startup, fetches, calls, runs>>

\* One turn of the for_each over the HashMap (in whatever order it
\* iterates): the log line with &container[..13], then remove_container,
\* whose error is only logged.  On an id of fewer than 13 bytes the slice
\* panics: the blocking task ends there, and its JoinError is dropped by
\* `let _ =`.
RemoveContainer ==
    /\ env.bg = "removing"
    /\ \E name \in env.pending :
          env' = IF env.CONTAINERS[name] = "short"
                 THEN [env EXCEPT !.bg = "shutdown"]
                 ELSE [env EXCEPT !.pending = env.pending \ {name},
                                  !.attempted = env.attempted \cup {name}]
    /\ UNCHANGED <<SERVER, exchange, startup, fetches, calls, runs>>

\* The loop has visited every entry; the blocking task ends.
RemoveDone ==
    /\ env.bg = "removing"
    /\ env.pending = {}
    /\ env' = [env EXCEPT !.bg = "shutdown"]
    /\ UNCHANGED <<SERVER, exchange, startup, fetches, calls, runs>>

\* shutdown_notifier_channel().tx.send(()); the body ends.
SendShutdown ==
    /\ env.bg = "shutdown"
    /\ env' = [env EXCEPT !.bg = "end", !.shutdown = env.shutdown + 1]
    /\ UNCHANGED <<SERVER, exchange, startup, fetches, calls, runs>>

\* teardown()'s recv gets the signal and teardown() returns.
TeardownReturn ==
    /\ env.main = "teardown_wait"
    /\ env.shutdown > 0
    /\ env' = [env EXCEPT !.main = "finished", !.shutdown = env.shutdown - 1]
    /\ UNCHANGED <<SERVER, exchange, startup, fetches, calls, runs>>

NextTest ==
    \/ SetupSpawn
    \/ AddContainer
    \/ InitDone
    \/ ServerStart
    \/ PostInitDone
    \/ SendInitialized
    \/ SetupReturn
    \/ TeardownSend
    \/ ReceiveStop
    \/ RemoveContainer
    \/ RemoveDone
    \/ SendShutdown
    \/ TeardownReturn

SpecTest == Init /\ [][NextTest]_vars

\* ------------------------------------------------------------------------
\* Properties of the request in progress
\* ------------------------------------------------------------------------

Outcome == exchange.v.outcome

\* The request reached validate_jwt: the global server is set, it has
\* settings, and the request carries an Authorization header.
Validating ==
    /\ exchange.some
    /\ exchange.v.cell.some
    /\ exchange.v.cell.v.settings.some
    /\ exchange.v.request.authorization.some

PresentedToken ==
    IF exchange.v.request.authorization.v.bearer
    THEN exchange.v.request.authorization.v.token
    ELSE NotAToken

\* The keys of the key store, in order.
KeyStore ==
    LET settings == exchange.v.cell.v.settings.v IN
    IF /\ settings.security.some
       /\ settings.security.v.oauth2.some
       /\ settings.security.v.oauth2.v.jwks.some
    THEN settings.security.v.oauth2.v.jwks.v
    ELSE <<>>

KidInStore ==
    /\ PresentedToken.kid.some
    /\ \E i \in DOMAIN KeyStore : KeyStore[i].kid = PresentedToken.kid

\* The key the token's kid selects: the first of that key id.
KeyOfKid ==
    KeyStore[CHOOSE i \in DOMAIN KeyStore :
               /\ KeyStore[i].kid = PresentedToken.kid
               /\ \A j \in 1..(i - 1) : KeyStore[j].kid # PresentedToken.kid]

ConfiguredIssuer ==
    LET settings == exchange.v.cell.v.settings.v IN
    IF settings.security.some /\ settings.security.v.oauth2.some
    THEN settings.security.v.oauth2.v.issuer_uri
    ELSE None

\* The token's signature verifies under the key of its kid, with the
\* algorithm of its header.
CorrectlySigned ==
    /\ PresentedToken.wellformed
    /\ KidInStore
    /\ KeyOfKid.wellformed
    /\ Family(PresentedToken.alg) = KeyOfKid.family
    /\ PresentedToken.sig = KeyOfKid.material

RejectionStatuses == {"401 Unauthorized", "500 Internal Server Error"}

Denied == ~Outcome.handler_ran /\ Outcome.status \in RejectionStatuses

ErrorKinds ==
    { "InvalidJwt", "InvalidPublicKey", "Configuration", "JWTDecode",
      "RoleAuthorizationParse", "InvalidRoles" }

\* C1 - fail-closed authorization: the handler body of a secured endpoint
\* runs only if the global server is set and validate_jwt returned Ok for the
\* request; an unset global server and every error kind end the request with
\* a rejection status and without the handler.
C1_FailClosed ==
    exchange.some =>
        /\ Outcome.handler_ran =>
              /\ exchange.v.cell.some
              /\ GlobalServer_validate_jwt(exchange.v.cell.v, exchange.v.request,
                                           exchange.v.authorize, exchange.v.now).kind = "Ok"
        /\ ~exchange.v.cell.some => Denied
        /\ Outcome.result.kind \in ErrorKinds => Denied
        /\ Outcome.result.kind \in ErrorKinds \cup {"Ok", "NotInitialized"}

\* A request whose token is good but whose roles fall short was denied.
C1_Witness ==
    /\ Validating
    /\ CorrectlySigned
    /\ Outcome.result.kind = "InvalidRoles"
    /\ Denied

\* Each step of the pipeline, failing on its own.
HeaderFails == ~PresentedToken.wellformed \/ ~PresentedToken.kid.some

KeyFails == ~KidInStore \/ ~KeyOfKid.wellformed

IssuerFails == ~ConfiguredIssuer.some

VerificationFails ==
    \/ KeyFails
    \/ Family(PresentedToken.alg) # KeyOfKid.family
    \/ PresentedToken.sig # KeyOfKid.material
    \/ ~PresentedToken.payload_ok
    \/ ~PresentedToken.claims.exp.some
    \/ PresentedToken.claims.exp.v < exchange.v.now - Leeway
    \/ /\ PresentedToken.claims.iss.some
       /\ PresentedToken.claims.iss # ConfiguredIssuer
    \/ PresentedToken.claims.aud.some

RolesFail ==
    validate_jwt_roles(PresentedToken.claims, exchange.v.authorize).kind # "Ok"

FirstFailure ==
    IF HeaderFails THEN 1
    ELSE IF KeyFails THEN 2
    ELSE IF IssuerFails THEN 3
    ELSE IF VerificationFails THEN 4
    ELSE IF RolesFail THEN 5
    ELSE 6

\* The error kinds of each step (6: no failure).
KindsOfStep ==
    << {"InvalidJwt"}, {"InvalidPublicKey"}, {"Configuration"}, {"JWTDecode"},
       {"RoleAuthorizationParse", "InvalidRoles"}, {"Ok"} >>

\* What each step calls.
CallsOfStep ==
    << {"validate_jwt_header"},
       {"get_auth2_public_key", "DecodingKey::try_from"},
       {"get_oauth2_config"},
       {"decode"},
       {"get_authorize_role_method", "has_any_role", "has_all_role"},
       {} >>

StepOfCall(c) == CHOOSE n \in 1..5 : c \in CallsOfStep[n]

\* C2 - token validation is an ordered pipeline that short-circuits: header
\* and kid, key lookup, (issuer of the configuration,) signature with exp and
\* iss, roles and policy.  The error returned is that of the earliest failing
\* step, the steps run in that order, and no step after the failing one runs.
C2_OrderedShortCircuit ==
    Validating =>
        /\ Outcome.result.kind \in KindsOfStep[FirstFailure]
        /\ \A i \in DOMAIN Outcome.result.calls :
              /\ StepOfCall(Outcome.result.calls[i]) <= FirstFailure
              /\ \A j \in 1..(i - 1) :
                    StepOfCall(Outcome.result.calls[j])
                        <= StepOfCall(Outcome.result.calls[i])
        /\ \A n \in 1..5 :
              n <= FirstFailure =>
                  \E i \in DOMAIN Outcome.result.calls :
                      StepOfCall(Outcome.result.calls[i]) = n

\* A token without kid, with no exp, against a policy that does not parse:
\* three steps fail, and the answer is the header's.
C2_Witness ==
    /\ Validating
    /\ PresentedToken.wellformed
    /\ HeaderFails
    /\ KeyFails
    /\ VerificationFails
    /\ RolesFail
    /\ Outcome.result.kind = "InvalidJwt"
    /\ Outcome.result.calls = <<"validate_jwt_header">>

\* C3 - a token whose header has no kid is answered InvalidJwt, whatever the
\* key store holds and whatever the policy is, and neither the key lookup nor
\* the signature verification runs for it.
C3_NoKidInvalidJwt ==
    (Validating /\ ~PresentedToken.kid.some) =>
        /\ Outcome.result.kind = "InvalidJwt"
        /\ \A i \in DOMAIN Outcome.result.calls :
              Outcome.result.calls[i] \notin
                  {"get_auth2_public_key", "DecodingKey::try_from", "decode"}
        /\ Denied

\* A readable token without kid, signed by a key of the store, was refused.
C3_Witness ==
    /\ Validating
    /\ PresentedToken.wellformed
    /\ ~PresentedToken.kid.some
    /\ \E i \in DOMAIN KeyStore : KeyStore[i].material = PresentedToken.sig
    /\ ~RolesFail
    /\ Outcome.result.kind = "InvalidJwt"

\* C4 - a token with a well-formed header whose kid is not exactly the key id
\* of any key of the key store is answered InvalidPublicKey.
C4_UnknownKidInvalidPublicKey ==
    (Validating /\ PresentedToken.wellformed /\ PresentedToken.kid.some
                /\ ~KidInStore) =>
        /\ Outcome.result.kind = "InvalidPublicKey"
        /\ Denied

\* The kid differs from that of a key of the store only by case, and the
\* token is signed by that key.
C4_Witness ==
    /\ Validating
    /\ PresentedToken.wellformed
    /\ PresentedToken.kid = Some("K1")
    /\ ~KidInStore
    /\ \E i \in DOMAIN KeyStore :
          /\ KeyStore[i].kid = Some("k1")
          /\ KeyStore[i].material = PresentedToken.sig
    /\ Outcome.result.kind = "InvalidPublicKey"

C6_ExpRequired ==
    (Validating /\ CorrectlySigned /\ ConfiguredIssuer.some
                /\ ~PresentedToken.claims.exp.some) =>
        /\ Outcome.result.kind = "JWTDecode"
        /\ Denied

\* A token that is good but for the missing exp.
C6_Witness ==
    /\ Validating
    /\ CorrectlySigned
    /\ PresentedToken.payload_ok
    /\ PresentedToken.claims.iss = ConfiguredIssuer
    /\ ~PresentedToken.claims.aud.some
    /\ ~PresentedToken.claims.exp.some
    /\ ~RolesFail
    /\ Outcome.result.kind = "JWTDecode"

\* C7 - a correctly signed, unexpired token gets past the verification of its
\* claims only if its iss is the configured issuer: one with a different or
\* a missing iss is answered JWTDecode.
C7_IssuerMustMatch ==
    (Validating /\ CorrectlySigned /\ ConfiguredIssuer.some
                /\ PresentedToken.claims.exp.some
                /\ PresentedToken.claims.exp.v > exchange.v.now
                /\ PresentedToken.claims.iss # ConfiguredIssuer) =>
        Outcome.result.kind = "JWTDecode"

\* C8 - a token whose header names an algorithm the key under its kid does
\* not support (an algorithm of another key family) is never accepted.
C8_AlgorithmOfTheKey ==
    (Validating /\ PresentedToken.wellformed /\ KidInStore
                /\ KeyOfKid.wellformed
                /\ Family(PresentedToken.alg) # KeyOfKid.family) =>
        /\ Outcome.result.kind \in ErrorKinds
        /\ Denied

\* The substitution: the header names HS256, the key is an RSA key, and the
\* signature is the HMAC under the public key material; all else is good.
C8_Witness ==
    /\ Validating
    /\ PresentedToken.wellformed
    /\ KidInStore
    /\ KeyOfKid.wellformed
    /\ KeyOfKid.family = "Rsa"
    /\ PresentedToken.alg = "HS256"
    /\ PresentedToken.sig = KeyOfKid.material
    /\ PresentedToken.payload_ok
    /\ PresentedToken.claims.exp.some
    /\ PresentedToken.claims.exp.v > exchange.v.now
    /\ PresentedToken.claims.iss = ConfiguredIssuer
    /\ ~PresentedToken.claims.aud.some
    /\ ~RolesFail
    /\ Outcome.result.kind = "JWTDecode"

\* The raw roles of the token's resource_access.
RawRolesOfToken ==
    IF PresentedToken.claims.resource_access.some
    THEN LET ra == PresentedToken.claims.resource_access.v IN
         UNION { { ra[n][i] : i \in DOMAIN ra[n] } : n \in DOMAIN ra }
    ELSE {}

HasRolePrefix(r) == Len(r) >= 5 /\ SubSeq(r, 1, 5) = ROLE_

\* C9 - end-to-end allow: a token signed by a key of the store, with exp in
\* the future and iss the configured issuer, whose resource_access lists a
\* raw role r without ROLE_ prefix, is allowed against the bare policy
\* ROLE_<r uppercased, '-' and ' ' replaced by '_'>.
C9_EndToEndAllow ==
    (Validating /\ CorrectlySigned /\ PresentedToken.payload_ok
                /\ PresentedToken.claims.exp.some
                /\ PresentedToken.claims.exp.v > exchange.v.now
                /\ ConfiguredIssuer.some
                /\ PresentedToken.claims.iss = ConfiguredIssuer
                /\ \E r \in RawRolesOfToken :
                      /\ ~HasRolePrefix(r)
                      /\ exchange.v.authorize =
                            ROLE_ \o replace(replace(to_uppercase(r), "-", "_"), " ", "_")) =>
        /\ Outcome.result.kind = "Ok"
        /\ Outcome.handler_ran

\* C10 - role normalization is idempotent: for every raw role r that
\* get_roles normalized, normalizing the result again changes nothing.
C10_NormalizeIdempotent ==
    (Validating /\ \E i \in DOMAIN Outcome.result.calls :
                      Outcome.result.calls[i] \in {"has_any_role", "has_all_role"}) =>
        \A r \in RawRolesOfToken :
            normalize_role(normalize_role(r)) = normalize_role(r)

\* The token passes every step before the roles.
TokenValid ==
    /\ Validating
    /\ ~HeaderFails
    /\ ~KeyFails
    /\ ~IssuerFails
    /\ ~VerificationFails

\* What the policy of the endpoint parses to.
ParsedPolicy == get_authorize_role_method(exchange.v.authorize)

\* The policy is a bare role, a hasAnyRole or a hasAllRoles list.
WellFormedPolicy ==
    /\ ParsedPolicy.kind = "Ok"
    /\ ParsedPolicy.v.method \in {<<>>, hasanyrole, hasallroles}

\* C11 - a validly signed token without resource_access claim is denied with
\* InvalidRoles (the user has no roles) under every well-formed policy: never
\* allowed, and never answered with a token-validity error.
C11_NoRolesDenied ==
    (TokenValid /\ ~PresentedToken.claims.resource_access.some /\ WellFormedPolicy) =>
        /\ Outcome.result.kind = "InvalidRoles"
        /\ Outcome.result.detail = "User doesn't have any roles."
        /\ Denied

\* Such a token against a hasAllRoles policy.
C11_Witness ==
    /\ TokenValid
    /\ ~PresentedToken.claims.resource_access.some
    /\ WellFormedPolicy
    /\ ParsedPolicy.v.method = hasallroles
    /\ Outcome.result.kind = "InvalidRoles"
    /\ ~Outcome.handler_ran

\* The words of a text: its maximal runs of word characters, in order.
RECURSIVE WordsOf(_)
WordsOf(s) ==
    IF s = <<>> THEN <<>>
    ELSE IF ~IsWordChar(s[1]) THEN WordsOf(Tail(s))
    ELSE <<SubSeq(s, 1, SkipWord(s, 1) - 1)>>
         \o WordsOf(SubSeq(s, SkipWord(s, 1), Len(s)))

\* The roles a policy lists, in declaration order, and its method keyword
\* (empty for a bare role), read off the text of the policy.
ListedRoles == SelectSeq(WordsOf(to_uppercase(exchange.v.authorize)), HasRolePrefix)

PolicyMethod ==
    IF \E i \in DOMAIN exchange.v.authorize : exchange.v.authorize[i] = "("
    THEN to_lowercase(WordsOf(exchange.v.authorize)[1])
    ELSE <<>>

\* The caller's normalized role set.
CallerRoles == { normalize_role(r) : r \in RawRolesOfToken }

\* The policy hasAnyRole(p) for the text p.
HasAnyRoleOf(p) == <<"h","a","s","A","n","y","R","o","l","e","(">> \o p \o <<")">>

\* C12 - for a bare role or a hasAnyRole list the decision is Allow if and
\* only if at least one listed role is in the caller's normalized role set,
\* and a bare role r decides exactly as hasAnyRole(r).
C12_AnyOfAllowsOnIntersection ==
    (TokenValid /\ ParsedPolicy.kind = "Ok" /\ PolicyMethod \in {<<>>, hasanyrole}) =>
        /\ Outcome.handler_ran <=>
              \E i \in DOMAIN ListedRoles : ListedRoles[i] \in CallerRoles
        /\ Outcome.result.kind \in {"Ok", "InvalidRoles"}
        /\ Outcome.handler_ran <=> Outcome.result.kind = "Ok"
        /\ PolicyMethod = <<>> =>
              validate_jwt_roles(PresentedToken.claims,
                                 HasAnyRoleOf(exchange.v.authorize)).kind
                  = Outcome.result.kind

\* A hasAnyRole list whose second role only the caller holds: allowed.
C12_Witness ==
    /\ TokenValid
    /\ ParsedPolicy.kind = "Ok"
    /\ PolicyMethod = hasanyrole
    /\ Len(ListedRoles) = 2
    /\ ListedRoles[1] \notin CallerRoles
    /\ ListedRoles[2] \in CallerRoles
    /\ Outcome.handler_ran

\* The first listed role the caller lacks, in declaration order.
FirstUnmetRole ==
    ListedRoles[CHOOSE i \in DOMAIN ListedRoles :
                  /\ ListedRoles[i] \notin CallerRoles
                  /\ \A j \in 1..(i - 1) : ListedRoles[j] \in CallerRoles]

\* C13 - for a hasAllRoles list the decision is Allow if and only if every
\* listed role is in the caller's normalized role set; when a caller with a
\* resource_access claim is denied, the reason names the first listed role
\* (in declaration order) the caller lacks, and the caller's role set.
C13_AllOfAllowsOnSubset ==
    (TokenValid /\ ParsedPolicy.kind = "Ok" /\ PolicyMethod = hasallroles) =>
        /\ Outcome.handler_ran <=>
              \A i \in DOMAIN ListedRoles : ListedRoles[i] \in CallerRoles
        /\ Outcome.handler_ran <=> Outcome.result.kind = "Ok"
        /\ ~Outcome.handler_ran => Outcome.result.kind = "InvalidRoles"
        /\ (~Outcome.handler_ran /\ PresentedToken.claims.resource_access.some) =>
              /\ Outcome.result.required = <<FirstUnmetRole>>
              /\ Outcome.result.current = CallerRoles

\* The caller holds the first listed role and lacks the second and the
\* third: the reason names the second.
C13_Witness ==
    /\ TokenValid
    /\ ParsedPolicy.kind = "Ok"
    /\ PolicyMethod = hasallroles
    /\ Len(ListedRoles) = 3
    /\ ListedRoles[1] \in CallerRoles
    /\ ListedRoles[2] \notin CallerRoles
    /\ ListedRoles[3] \notin CallerRoles
    /\ Outcome.result.kind = "InvalidRoles"
    /\ Outcome.result.required = <<ListedRoles[2]>>

\* C14 - a policy whose method keyword is neither hasanyrole nor hasallroles
\* (compared without regard to case) is rejected with RoleAuthorizationParse.
C14_UnknownMethodParseError ==
    (TokenValid /\ PolicyMethod \notin {<<>>, hasanyrole, hasallroles}) =>
        /\ Outcome.result.kind = "RoleAuthorizationParse"
        /\ Denied

C24_EmptyRuleOpenToAuthenticated ==
    (TokenValid /\ exchange.v.authorize = <<>>) =>
        /\ Outcome.result.kind = "Ok"
        /\ Outcome.handler_ran

Resolved == startup.pc \in {"publish", "done", "nodb"}

\* The settings name an issuer.
HasIssuer(settings) ==
    /\ settings.security.some
    /\ settings.security.v.oauth2.some
    /\ settings.security.v.oauth2.v.issuer_uri.some

\* C16 - with discovery disabled, provider resolution returns the static
\* configuration unchanged when it names an issuer, and fails with a
\* Configuration error that aborts the startup when it names none: no
\* startup gets past the resolution, and no server serves, without an issuer.
C16_StaticNeedsIssuer ==
    /\ (Resolved /\ ~discovery_requested(startup.settings.v)) =>
          /\ startup.server.v.settings = startup.settings
          /\ HasIssuer(startup.settings.v)
    /\ SERVER.some => HasIssuer(SERVER.v.settings.v)

\* One of the GETs of the startup failed, or its body did not deserialize.
FetchFailed ==
    \/ startup.discovery.some /\ startup.discovery.v.status # "ok"
    \/ startup.jwks.some /\ startup.jwks.v.status # "ok"

C18_TwoFetchesInOrder ==
    /\ [](/\ fetches \in {<<>>, <<"discovery">>, <<"discovery", "jwks">>}
          /\ Len(fetches) >= 1 => discovery_requested(startup.settings.v)
          /\ Len(fetches) = 2 =>
                /\ startup.discovery.some
                /\ startup.discovery.v.status = "ok"
                /\ startup.discovery.v.body.jwks_uri.some)
    /\ [][(Resolved /\ startup'.n = startup.n) => fetches' = fetches]_vars
    /\ [][exchange' # exchange =>
            /\ fetches' = fetches
            /\ SERVER' = SERVER
            /\ startup' = startup]_vars

\* After a startup with both GETs, a token whose kid the fetched key set
\* does not hold was answered InvalidPublicKey.
C18_Witness ==
    /\ startup.pc = "done"
    /\ fetches = <<"discovery", "jwks">>
    /\ SERVER.some
    /\ exchange.some
    /\ exchange.v.cell = SERVER
    /\ Outcome.result.kind = "InvalidPublicKey"

\* C19 - no request is validated before the provider resolution has
\* finished: the global server is published only by a startup that has left
\* the discovery (with success or with the fallback), a request that comes
\* earlier is refused without validate_jwt being called, and every
\* validate_jwt call sees the published, final configuration.
C19_ResolvedBeforeServing ==
    /\ [](exchange.some =>
             IF exchange.v.cell.some
             THEN exchange.v.cell = SERVER
             ELSE /\ Outcome.result.calls = <<>>
                  /\ Outcome.status = "500 Internal Server Error"
                  /\ ~Outcome.handler_ran)
    /\ []((startup.n = 1 /\ ~Resolved) => ~SERVER.some)
    /\ [][SERVER' # SERVER =>
            /\ startup.pc = "publish"
            /\ startup.server.some
            /\ SERVER' = startup.server
            /\ startup'.pc = "done"]_vars

\* A token of the discovered provider was validated and allowed against the
\* configuration that the discovery and the JWKS GET produced.
C19_Witness ==
    /\ startup.pc = "done"
    /\ fetches = <<"discovery", "jwks">>
    /\ startup.jwks.v.status = "ok"
    /\ exchange.some
    /\ exchange.v.cell = startup.server
    /\ get_oauth2_config(exchange.v.cell.v.settings.v).v.issuer_uri = Some(Issuer2)
    /\ Outcome.handler_ran

\* C20 - the global server is write-once: once a set_global has stored a
\* server, the cell, and with it the settings every later Server::global()
\* reads, never changes; a later set_global leaves the stored value alone.
C20_WriteOnce ==
    /\ [][SERVER.some =>
            /\ SERVER' = SERVER
            /\ global(SERVER').v.settings = global(SERVER).v.settings]_vars
    /\ [](exchange.some /\ exchange.v.cell.some => exchange.v.cell = SERVER)

\* A second startup resolved another server and called set_global with it;
\* the cell still holds the first one.
C20_Witness ==
    /\ startup.n = 2
    /\ startup.pc = "done"
    /\ SERVER.some
    /\ startup.server.some
    /\ SERVER # startup.server
    /\ SERVER.v.settings # startup.server.v.settings

\* C22 - startup always terminates: a startup that has begun its provider
\* resolution, whatever the discovery and JWKS endpoints do (never
\* answering included), leaves the resolution and goes on to serve.
C22_StartupTerminates ==
    (startup.pc \in {"discover", "jwks"}) ~> (startup.pc \in {"done", "nodb"})

\* The configuration names a jwks-uri and holds no keys.
KeysOnlyByUri(settings) ==
    /\ get_oauth2_config(settings).some
    /\ get_oauth2_config(settings).v.jwks_uri.some
    /\ ~get_oauth2_config(settings).v.jwks.some

DiscoverySucceeded ==
    /\ Resolved
    /\ startup.discovery.some
    /\ startup.discovery.v.status = "ok"
    /\ startup.discovery.v.body.jwks_uri.some =>
          startup.jwks.some /\ startup.jwks.v.status = "ok"

\* C29 - a successful discovery replaces the whole OAuth2 section rather than
\* merging it: issuer, endpoints and (when the document names a jwks_uri)
\* keys are the provider's, only the enabled flag and the discovery URL are
\* kept from the static section, the static client credentials, issuer and
\* inline keys are dropped, and the server, data and metrics sections are
\* left as they were.
C29_DiscoveryReplacesOAuth2 ==
    DiscoverySucceeded =>
        LET static   == get_oauth2_config(startup.settings.v).v
            document == startup.discovery.v.body
            resolved == startup.server.v.settings.v
            oauth2   == get_oauth2_config(resolved).v
        IN  /\ oauth2.issuer_uri = document.issuer_uri
            /\ oauth2.jwks_uri = document.jwks_uri
            /\ oauth2.token_uri = document.token_uri
            /\ oauth2.client = document.client
            /\ oauth2.jwks = IF document.jwks_uri.some
                             THEN Some(startup.jwks.v.body)
                             ELSE document.jwks
            /\ oauth2.enabled = static.enabled
            /\ oauth2.discovery_url = static.discovery_url
            /\ oauth2.discovery_enabled = Some(TRUE)
            /\ resolved.server = startup.settings.v.server
            /\ resolved.data = startup.settings.v.data
            /\ resolved.metrics = startup.settings.v.metrics
            /\ (startup.pc = "done" /\ startup.n = 1) => SERVER.v.settings = Some(resolved)

\* A document without jwks_uri came: the published section has the
\* provider's issuer, and neither the static client nor the static keys.
C29_Witness ==
    /\ DiscoverySucceeded
    /\ startup.pc = "done"
    /\ startup.n = 1
    /\ ~startup.discovery.v.body.jwks_uri.some
    /\ get_oauth2_config(startup.settings.v).v.client.some
    /\ get_oauth2_config(startup.settings.v).v.jwks.some
    /\ get_oauth2_config(startup.settings.v).v.issuer_uri = Some(Issuer1)
    /\ get_oauth2_config(SERVER.v.settings.v).v.issuer_uri = Some(Issuer2)
    /\ ~get_oauth2_config(SERVER.v.settings.v).v.client.some
    /\ ~get_oauth2_config(SERVER.v.settings.v).v.jwks.some
    /\ SERVER.v.settings.v.server = Some("server")

\* C30 - the error Configuration("Security not configured..") is out of a
\* request's reach: a key lookup that succeeds has read the OAuth2 section,
\* so with no security or no OAuth2 section every readable token with a key
\* id is refused with InvalidPublicKey, and the only Configuration error that
\* validate_jwt hands a request is the one of the missing issuer.
C30_SecurityNotConfiguredUnreachable ==
    Validating =>
        /\ Outcome.result.detail # "Security not configured.."
        /\ (/\ ~get_oauth2_config(exchange.v.cell.v.settings.v).some
            /\ PresentedToken.wellformed
            /\ PresentedToken.kid.some) =>
              /\ Outcome.result.kind = "InvalidPublicKey"
              /\ Outcome.result.calls = <<"validate_jwt_header", "get_auth2_public_key">>
              /\ Denied
        /\ (Outcome.result.kind = "Configuration" /\ Outcome.result.calls # <<>>) =>
              /\ Outcome.result.detail = "Issuer URI not configured."
              /\ get_oauth2_config(exchange.v.cell.v.settings.v).some
              /\ get_auth2_public_key(exchange.v.cell.v.settings.v,
                                      PresentedToken.kid.v).some

\* The configuration file has a security section without an OAuth2 section,
\* the startup published its server, and a token with a key id was refused
\* for its key.
C30_Witness ==
    /\ startup.pc = "done"
    /\ SERVER = startup.server
    /\ Validating
    /\ exchange.v.cell = SERVER
    /\ SERVER.v.settings.v.security.some
    /\ ~get_oauth2_config(SERVER.v.settings.v).some
    /\ PresentedToken.wellformed
    /\ PresentedToken.kid.some
    /\ Outcome.result.kind = "InvalidPublicKey"
    /\ Outcome.status = "401 Unauthorized"

\* ------------------------------------------------------------------------
\* Properties of Server::run
\* ------------------------------------------------------------------------

\* C26 - Server::run is guarded against a double start: once run() has begun
\* on an instance, is_running() reports true for it, and every further call
\* of run() on it returns at once with the warning, so the HTTP servers are
\* bootstrapped at most once.
C26_RunGuardedAgainstDoubleStart ==
    (runs.instance.some /\ runs.calls >= 1) =>
        /\ is_running(runs.instance.v.server)
        /\ runs.warned = runs.calls - 1
        /\ runs.bootstraps <= 1

\* ------------------------------------------------------------------------
\* Properties of the test environment
\* ------------------------------------------------------------------------

\* C27 - teardown is blocking and ordered: setup() has returned only when
\* init, the server start and post_init have completed, and a teardown()
\* called once after that has returned only when the background thread has
\* received Stop, has attempted the removal of every container registered
\* through add_container, and has sent the shutdown signal.
C27_TeardownBlockingOrdered ==
    /\ env.main \in {"tests", "teardown_wait", "finished"} =>
          env.bg \in {"wait_stop", "removing", "shutdown", "end"}
    /\ env.main = "finished" =>
          /\ env.bg = "end"
          /\ env.container = 0
          /\ env.attempted = DOMAIN env.CONTAINERS

\* ------------------------------------------------------------------------
\* Properties of concurrent validations
\* ------------------------------------------------------------------------

=============================================================================
